---- MODULE Spec2Model ----
(***************************************************************************)
(* uu.IDSet (src/uu/idset.go): a set of IDs kept in a Go map, the nil map  *)
(* standing for SQL NULL / JSON null.                                      *)
(*                                                                         *)
(* An IDSet VALUE is a record [null, ids]: null = TRUE is the nil map.     *)
(* A Go map is a reference: the heap specifications keep the map objects   *)
(* in `heap` and the variables x, y as references into it.                 *)
(* Go strings and byte slices are sequences of one-character strings.      *)
(* The iteration order of a Go map is unspecified: every operator that     *)
(* ranges over a map takes the order `it` (a permutation of all IDs) as a  *)
(* parameter, and the actions and formulas quantify over it.               *)
(***************************************************************************)
EXTENDS Integers, Sequences, FiniteSets, TLC

\* number of distinct IDs of the model
NumIDs == 3
\* longest ID slice / string list passed to an operation
MaxLen == 2

IDs == 1..NumIDs
IDNil == 0

VARIABLES
    heap,   \* the map objects: address -> the IDs the map holds
    ref,    \* the IDSet variables x and y: an address, or Nil for the nil map
    rel,    \* "clone" while y holds the result of x.Clone() and neither was reassigned
    ret,    \* the last call on x / y: what was called and what it returned
    cin,    \* the last call of a constructor, parser or encoder: its input
    cout,   \* ... and its result
    fe      \* the ForEach call in progress (or finished)

vars == <<heap, ref, rel, ret, cin, cout, fe>>

----------------------------------------------------------------------------
(* Collaborators of package uu that IDSet is built on: ID, IDSlice, strutil *)

Digit == <<"1", "2", "3", "4", "5", "6", "7", "8", "9">>

\* ID.String(): the canonical string form of an ID
IDString(id) == <<"u", Digit[id]>>

NoErr == [ok |-> TRUE, bad |-> <<>>]
ParseError(str) == [ok |-> FALSE, bad |-> str]

\* IDFromString(str) (ID, error)
IDFromString(str) ==
    IF \E id \in IDs : IDString(id) = str
    THEN [id |-> CHOOSE id \in IDs : IDString(id) = str, err |-> NoErr]
    ELSE [id |-> IDNil, err |-> ParseError(str)]

RECURSIVE Insert(_, _)
Insert(id, sorted) ==
    IF sorted = <<>> THEN <<id>>
    ELSE IF id <= Head(sorted) THEN <<id>> \o sorted
    ELSE <<Head(sorted)>> \o Insert(id, Tail(sorted))

\* IDSlice.Sort(): ascending in the total order of the IDs
RECURSIVE IDSliceSort(_)
IDSliceSort(sl) ==
    IF sl = <<>> THEN <<>> ELSE Insert(Head(sl), IDSliceSort(Tail(sl)))

RECURSIVE Join(_, _)
Join(strs, sep) ==
    IF strs = <<>> THEN <<>>
    ELSE IF Len(strs) = 1 THEN strs[1]
    ELSE strs[1] \o sep \o Join(Tail(strs), sep)

\* IDSlice.String(): "[id1,id2]"
IDSliceString(sl) ==
    <<"[">> \o Join([i \in 1..Len(sl) |-> IDString(sl[i])], <<",">>) \o <<"]">>

Quoted(str) == <<"\"">> \o str \o <<"\"">>

\* IDSlice.MarshalJSON(): an array of the IDs' JSON strings
IDSliceMarshalJSON(sl) ==
    <<"[">> \o Join([i \in 1..Len(sl) |-> Quoted(IDString(sl[i]))], <<",">>) \o <<"]">>

\* driver.Value: nil (SQL NULL) or data
SQLNull == [isNil |-> TRUE, data |-> <<>>]
SQLData(d) == [isNil |-> FALSE, data |-> d]

\* IDSlice.Value(): the array literal "{id1,id2}"
IDSliceValue(sl) ==
    SQLData(<<"{">> \o Join([i \in 1..Len(sl) |-> IDString(sl[i])], <<",">>) \o <<"}">>)

\* strings.HasPrefix / HasSuffix / TrimPrefix
HasPrefix(s, p) == Len(s) >= Len(p) /\ SubSeq(s, 1, Len(p)) = p
HasSuffix(s, p) == Len(s) >= Len(p) /\ SubSeq(s, Len(s) - Len(p) + 1, Len(s)) = p
TrimPrefix(s, p) == IF HasPrefix(s, p) THEN SubSeq(s, Len(p) + 1, Len(s)) ELSE s

\* strings.Split(s, sep) for a one-character sep: always at least one field
RECURSIVE SplitFrom(_, _, _)
SplitFrom(s, sep, cur) ==
    IF s = <<>> THEN <<cur>>
    ELSE IF Head(s) = sep THEN <<cur>> \o SplitFrom(Tail(s), sep, <<>>)
    ELSE SplitFrom(Tail(s), sep, Append(cur, Head(s)))

Split(s, sep) == SplitFrom(s, sep, <<>>)

\* strutil.TrimSpace(s): s without leading and trailing white space
RECURSIVE TrimLeft(_)
TrimLeft(s) == IF s # <<>> /\ Head(s) = " " THEN TrimLeft(Tail(s)) ELSE s

RECURSIVE TrimRight(_)
TrimRight(s) ==
    IF s # <<>> /\ s[Len(s)] = " " THEN TrimRight(SubSeq(s, 1, Len(s) - 1)) ELSE s

TrimSpace(s) == TrimRight(TrimLeft(s))

\* the parse loop of IDSlice.UnmarshalJSON / IDSlice.Scan over the elements
RECURSIVE ParseElems(_, _, _)
ParseElems(elems, quoted, acc) ==
    IF elems = <<>> THEN [slice |-> acc, err |-> NoErr]
    ELSE LET e == TrimSpace(Head(elems))
             wellQuoted == Len(e) >= 2 /\ e[1] = "\"" /\ e[Len(e)] = "\""
             str == IF quoted /\ wellQuoted THEN SubSeq(e, 2, Len(e) - 1) ELSE e
             r == IDFromString(str)
         IN IF (quoted /\ ~wellQuoted) \/ ~r.err.ok
            THEN [slice |-> <<>>, err |-> ParseError(e)]
            ELSE ParseElems(Tail(elems), quoted, Append(acc, r.id))

ParseList(data, open, close, quoted) ==
    IF ~(Len(data) >= 2 /\ data[1] = open /\ data[Len(data)] = close)
    THEN [slice |-> <<>>, err |-> ParseError(data)]
    ELSE LET inner == SubSeq(data, 2, Len(data) - 1)
         IN IF TrimSpace(inner) = <<>> THEN [slice |-> <<>>, err |-> NoErr]
            ELSE ParseElems(Split(inner, ","), quoted, <<>>)

\* IDSlice.UnmarshalJSON(data): a JSON array of ID strings
IDSliceUnmarshalJSON(data) == ParseList(data, "[", "]", TRUE)

\* IDSlice.Scan(value): the array literal "{id1,id2}"
IDSliceScan(value) ==
    IF value.isNil THEN [slice |-> <<>>, err |-> NoErr]
    ELSE ParseList(value.data, "{", "}", FALSE)

----------------------------------------------------------------------------
(* IDSet values *)

NilSet == [null |-> TRUE, ids |-> {}]
MakeSet(S) == [null |-> FALSE, ids |-> S]
SetValues == {NilSet} \cup {MakeSet(S) : S \in SUBSET IDs}

SeqRange(sq) == {sq[i] : i \in 1..Len(sq)}

\* the orders a range over a map may take: the permutations of all IDs
Perms == {p \in [1..NumIDs -> IDs] : SeqRange(p) = IDs}

\* `for id := range s` under the order it
RangeOver(s, it) == SelectSeq(it, LAMBDA id : id \in s.ids)

\* IDSlice.AsSet(): a new map holding the IDs of the slice
IDSliceAsSet(sl) == MakeSet(SeqRange(sl))

\* MakeIDSet(ids...)
MakeIDSet(ids) == IDSliceAsSet(ids)

\* s[id] = struct{}{} : an assignment to an entry of the nil map panics
Add(s, id) ==
    IF s.null THEN [set |-> s, panic |-> TRUE]
    ELSE [set |-> [s EXCEPT !.ids = @ \cup {id}], panic |-> FALSE]


RECURSIVE MakeLoop(_, _)
MakeLoop(strs, s) ==
    IF strs = <<>> THEN [set |-> s, err |-> NoErr]
    ELSE LET r == IDFromString(Head(strs))
         IN IF ~r.err.ok THEN [set |-> NilSet, err |-> r.err]
            ELSE MakeLoop(Tail(strs), Add(s, r.id).set)

RECURSIVE MakeLoop_Partial(_, _)
MakeLoop_Partial(strs, s) ==
    IF strs = <<>> THEN [set |-> s, err |-> NoErr]
    ELSE LET r == IDFromString(Head(strs))
         IN IF ~r.err.ok THEN [set |-> s, err |-> r.err]
            ELSE MakeLoop_Partial(Tail(strs), Add(s, r.id).set)

\* mutant: on a parse error, returns the set filled so far with the error
MakeIDSetFromStrings_Partial(strs) == MakeLoop_Partial(strs, MakeSet({}))

\* MakeIDSetFromStrings(strs) (IDSet, error)
MakeIDSetFromStrings(strs) == MakeLoop(strs, MakeSet({}))

\* MakeIDSetMustFromStrings(strs...): panics on an error
MakeIDSetMustFromStrings(strs) ==
    LET r == MakeIDSetFromStrings(strs)
    IN [set |-> r.set, panic |-> ~r.err.ok]

S_set == <<"s", "e", "t">>
S_null == <<"n", "u", "l", "l">>
S_NULL == <<"N", "U", "L", "L">>

\* mutant: the leading "set" is not trimmed
IDSetFromString_NoSetPrefix(str) ==
    LET bracketed == HasPrefix(str, <<"[">>) /\ HasSuffix(str, <<"]">>)
        s2 == IF bracketed THEN SubSeq(str, 2, Len(str) - 1) ELSE str
        strs == Split(s2, ",")
    IN IF ~bracketed /\ (str = S_null \/ str = S_NULL)
       THEN [set |-> NilSet, err |-> NoErr]
       ELSE IF s2 = <<>>
       THEN [set |-> NilSet, err |-> NoErr]
       ELSE MakeIDSetFromStrings([i \in 1..Len(strs) |-> TrimSpace(strs[i])])

\* IDSetFromString(str) (IDSet, error)
IDSetFromString(str) ==
    LET s1 == TrimPrefix(str, S_set)
        bracketed == HasPrefix(s1, <<"[">>) /\ HasSuffix(s1, <<"]">>)
        s2 == IF bracketed THEN SubSeq(s1, 2, Len(s1) - 1) ELSE s1
        strs == Split(s2, ",")
    IN IF ~bracketed /\ (s1 = S_null \/ s1 = S_NULL)
       THEN [set |-> NilSet, err |-> NoErr]
       ELSE IF s2 = <<>>
       THEN [set |-> NilSet, err |-> NoErr]
       ELSE MakeIDSetFromStrings([i \in 1..Len(strs) |-> TrimSpace(strs[i])])

\* IDSet.AsSlice(): the IDs in the order of the map's iteration, nil if none
AsSlice(s, it) == IF Cardinality(s.ids) = 0 THEN <<>> ELSE RangeOver(s, it)

\* mutant: the slice is returned in the order of the map's iteration
AsSortedSlice_Unsorted(s, it) == AsSlice(s, it)

\* IDSet.AsSortedSlice()
AsSortedSlice(s, it) == IDSliceSort(AsSlice(s, it))

\* IDSet.String()
String(s, it) == S_set \o IDSliceString(AsSortedSlice(s, it))

\* IDSet.MarshalText()
MarshalText(s, it) == String(s, it)

\* IDSet.Value()
Value(s, it) == IF s.null THEN SQLNull ELSE IDSliceValue(AsSortedSlice(s, it))

\* IDSet.MarshalJSON()
MarshalJSON(s, it) == IF s.null THEN S_null ELSE IDSliceMarshalJSON(AsSortedSlice(s, it))

\* IDSet.GetOne()
GetOne(s, it) == IF RangeOver(s, it) = <<>> THEN IDNil ELSE Head(RangeOver(s, it))

\* IDSet.Contains(id)
Contains(s, id) == IF s.null THEN FALSE ELSE id \in s.ids

RECURSIVE AddLoop(_, _)
AddLoop(s, sl) ==
    IF sl = <<>> THEN [set |-> s, panic |-> FALSE]
    ELSE LET r == Add(s, Head(sl))
         IN IF r.panic THEN r ELSE AddLoop(r.set, Tail(sl))

\* IDSet.AddSlice(s IDSlice)
AddSlice(set, sl) == AddLoop(set, sl)

\* IDSet.AddSet(other)
AddSet(s, other, it) == AddLoop(s, RangeOver(other, it))

\* IDSet.Delete(id): delete on the nil map is a no-op
Delete(s, id) == [s EXCEPT !.ids = @ \ {id}]

\* IDSet.Clear()
Clear(s) == [s EXCEPT !.ids = {}]

RECURSIVE DeleteLoop(_, _)
DeleteLoop(s, sl) ==
    IF sl = <<>> THEN s ELSE DeleteLoop(Delete(s, Head(sl)), Tail(sl))

\* IDSet.DeleteSlice(sl)
DeleteSlice(s, sl) == DeleteLoop(s, sl)

\* IDSet.DeleteSet(other)
DeleteSet(s, other, it) == DeleteLoop(s, RangeOver(other, it))

RECURSIVE DiffLoop(_, _, _)
DiffLoop(order, against, diff) ==
    IF order = <<>> THEN diff
    ELSE DiffLoop(Tail(order), against,
                  IF ~Contains(against, Head(order)) THEN Add(diff, Head(order)).set
                  ELSE diff)

\* mutant: only the IDs of s that other lacks (the relative complement)
Diff_OneSided(s, other, it) == DiffLoop(RangeOver(s, it), other, MakeSet({}))

\* IDSet.Diff(other)
Diff(s, other, it) ==
    DiffLoop(RangeOver(other, it), s, DiffLoop(RangeOver(s, it), other, MakeSet({})))

RECURSIVE EqualLoop(_, _)
EqualLoop(order, other) ==
    IF order = <<>> THEN TRUE
    ELSE IF ~Contains(other, Head(order)) THEN FALSE
    ELSE EqualLoop(Tail(order), other)

\* IDSet.Equal(other)
Equal(s, other, it) ==
    IF Cardinality(s.ids) # Cardinality(other.ids) THEN FALSE
    ELSE EqualLoop(RangeOver(s, it), other)

\* IDSet.Len(), IsEmpty(), IsNull()
IDSetLen(s) == Cardinality(s.ids)
IsEmpty(s) == Cardinality(s.ids) = 0
IsNull(s) == s.null

----------------------------------------------------------------------------
(* Map objects and the variables that refer to them *)

\* the nil map
Nil == 0
Vars == {"x", "y"}
\* as many addresses as variables: a variable that is assigned a new map lets
\* go of the one it referred to, so a new map always finds room
Addrs == 1..Cardinality(Vars)

Other(v) == IF v = "x" THEN "y" ELSE "x"

Referenced(rf) == {rf[v] : v \in Vars} \ {Nil}

\* the value a reference denotes
Deref(h, r) == IF r = Nil THEN NilSet ELSE MakeSet(h[r])

\* maps no variable refers to are collected
Collect(h, rf) == [a \in Addrs |-> IF a \in Referenced(rf) THEN h[a] ELSE {}]

\* make(IDSet) and friends: the address of a new map
Fresh(rf) == CHOOSE a \in Addrs \ Referenced(rf) : \A b \in Addrs \ Referenced(rf) : a <= b

\* v = s, for a value s that is nil or a map made by the call
AssignNew(h, rf, v, s) ==
    IF s.null
    THEN LET rf2 == [rf EXCEPT ![v] = Nil]
         IN [heap |-> Collect(h, rf2), ref |-> rf2]
    ELSE LET a == Fresh([rf EXCEPT ![v] = Nil])
             rf2 == [rf EXCEPT ![v] = a]
         IN [heap |-> Collect([h EXCEPT ![a] = s.ids], rf2), ref |-> rf2]

\* a method with a value receiver wrote to the map of v: s is the map's new content
StoreIn(h, rf, v, s) ==
    IF rf[v] = Nil THEN h ELSE [h EXCEPT ![rf[v]] = s.ids]

\* (*IDSet).UnmarshalText(text)
UnmarshalText(h, rf, v, text) ==
    LET parsed == IDSetFromString(text)
    IN IF ~parsed.err.ok THEN [heap |-> h, ref |-> rf, err |-> parsed.err]
       ELSE [heap |-> AssignNew(h, rf, v, parsed.set).heap,
             ref |-> AssignNew(h, rf, v, parsed.set).ref, err |-> NoErr]

\* (*IDSet).Scan(value)
Scan(h, rf, v, value) ==
    IF value.isNil
    THEN [heap |-> AssignNew(h, rf, v, NilSet).heap,
          ref |-> AssignNew(h, rf, v, NilSet).ref, err |-> NoErr]
    ELSE LET r == IDSliceScan(value)
         IN IF ~r.err.ok THEN [heap |-> h, ref |-> rf, err |-> r.err]
            ELSE [heap |-> AssignNew(h, rf, v, IDSliceAsSet(r.slice)).heap,
                  ref |-> AssignNew(h, rf, v, IDSliceAsSet(r.slice)).ref, err |-> NoErr]

\* mutant: decodes into the map *s refers to instead of assigning a new one
UnmarshalJSON_InPlace(h, rf, v, data) ==
    IF data = S_null
    THEN [heap |-> StoreIn(h, rf, v, MakeSet({})), ref |-> rf, err |-> NoErr]
    ELSE LET r == IDSliceUnmarshalJSON(data)
         IN IF ~r.err.ok THEN [heap |-> h, ref |-> rf, err |-> r.err]
            ELSE IF rf[v] = Nil
            THEN [heap |-> AssignNew(h, rf, v, IDSliceAsSet(r.slice)).heap,
                  ref |-> AssignNew(h, rf, v, IDSliceAsSet(r.slice)).ref, err |-> NoErr]
            ELSE [heap |-> StoreIn(h, rf, v, AddSlice(Deref(h, rf[v]), r.slice).set),
                  ref |-> rf, err |-> NoErr]

\* (*IDSet).UnmarshalJSON(data)
UnmarshalJSON(h, rf, v, data) ==
    IF data = S_null
    THEN [heap |-> AssignNew(h, rf, v, NilSet).heap,
          ref |-> AssignNew(h, rf, v, NilSet).ref, err |-> NoErr]
    ELSE LET r == IDSliceUnmarshalJSON(data)
         IN IF ~r.err.ok THEN [heap |-> h, ref |-> rf, err |-> r.err]
            ELSE [heap |-> AssignNew(h, rf, v, IDSliceAsSet(r.slice)).heap,
                  ref |-> AssignNew(h, rf, v, IDSliceAsSet(r.slice)).ref, err |-> NoErr]

\* mutant: returns the receiver's own map
Clone_Alias(h, rf, v) == [heap |-> h, addr |-> rf[v]]

\* IDSet.Clone(): nil for the nil map, else maps.Clone(s), a new map
\* (the result is assigned to the other variable, which lets go of its map)
Clone(h, rf, v) ==
    IF rf[v] = Nil THEN [heap |-> h, addr |-> Nil]
    ELSE LET a == Fresh([rf EXCEPT ![Other(v)] = Nil])
         IN [heap |-> [h EXCEPT ![a] = h[rf[v]]], addr |-> a]

----------------------------------------------------------------------------
(* Constructors, parsers and encoders applied to inputs of bounded size *)

\* the ID slices / string lists of at most MaxLen elements over a set
SeqsUpTo(S) == UNION {[1..n -> S] : n \in 0..MaxLen}

\* strings passed as IDs: the valid ones, and some that do not parse
StrTokens == {IDString(id) : id \in IDs} \cup {<<>>, <<"z">>, <<"u", "0">>}

U(id) == IDString(id)

\* texts passed to the parser: every canonical text, and hand-written ones
TextInputs ==
    {String(s, it) : s \in SetValues, it \in Perms}
    \cup { <<>>, S_null, S_NULL, S_set, S_set \o S_null,
           <<"[", "]">>, <<"[">>, <<"[", " ", "]">>,
           U(1), U(2) \o <<",">> \o U(1), U(1) \o <<",", " ">> \o U(1),
           <<"[">> \o S_null \o <<"]">>,
           S_set \o <<"[", " ">> \o U(2) \o <<" ", ",", " ">> \o U(1) \o <<" ", "]">>,
           S_set \o <<"[">> \o U(1) \o <<",", "z", "]">>,
           S_set \o <<"[">> \o U(1) \o <<",", "]">>,
           <<"[">> \o U(2) \o <<",">> \o U(1) \o <<",">> \o U(2) \o <<"]">>,
           <<"s", "e", "t", "s", "e", "t", "[", "]">> }

NoCall == [op |-> "none", set |-> NilSet, text |-> <<>>, strs |-> <<>>]
NoResult == [text |-> <<>>, val |-> SQLNull, set |-> NilSet, err |-> NoErr, panic |-> FALSE]

CallString ==
    \E s \in SetValues, it \in Perms :
        /\ cin' = [NoCall EXCEPT !.op = "String", !.set = s]
        /\ cout' = [NoResult EXCEPT !.text = String(s, it)]
        /\ UNCHANGED <<heap, ref, rel, ret, fe>>

CallMarshalText ==
    \E s \in SetValues, it \in Perms :
        /\ cin' = [NoCall EXCEPT !.op = "MarshalText", !.set = s]
        /\ cout' = [NoResult EXCEPT !.text = MarshalText(s, it)]
        /\ UNCHANGED <<heap, ref, rel, ret, fe>>

CallMarshalJSON ==
    \E s \in SetValues, it \in Perms :
        /\ cin' = [NoCall EXCEPT !.op = "MarshalJSON", !.set = s]
        /\ cout' = [NoResult EXCEPT !.text = MarshalJSON(s, it)]
        /\ UNCHANGED <<heap, ref, rel, ret, fe>>

CallValue ==
    \E s \in SetValues, it \in Perms :
        /\ cin' = [NoCall EXCEPT !.op = "Value", !.set = s]
        /\ cout' = [NoResult EXCEPT !.val = Value(s, it)]
        /\ UNCHANGED <<heap, ref, rel, ret, fe>>

CallIDSetFromString ==
    \E str \in TextInputs :
        LET r == IDSetFromString(str)
        IN /\ cin' = [NoCall EXCEPT !.op = "IDSetFromString", !.text = str]
           /\ cout' = [NoResult EXCEPT !.set = r.set, !.err = r.err]
           /\ UNCHANGED <<heap, ref, rel, ret, fe>>

CallMakeIDSetFromStrings ==
    \E strs \in SeqsUpTo(StrTokens) :
        LET r == MakeIDSetFromStrings(strs)
        IN /\ cin' = [NoCall EXCEPT !.op = "MakeIDSetFromStrings", !.strs = strs]
           /\ cout' = [NoResult EXCEPT !.set = r.set, !.err = r.err]
           /\ UNCHANGED <<heap, ref, rel, ret, fe>>

CallMakeIDSetMustFromStrings ==
    \E strs \in SeqsUpTo(StrTokens) :
        LET r == MakeIDSetMustFromStrings(strs)
        IN /\ cin' = [NoCall EXCEPT !.op = "MakeIDSetMustFromStrings", !.strs = strs]
           /\ cout' = [NoResult EXCEPT !.set = r.set, !.panic = r.panic]
           /\ UNCHANGED <<heap, ref, rel, ret, fe>>

----------------------------------------------------------------------------
(* Calls on the variables x and y *)

NoRet == [op |-> "none", recv |-> "x", arg |-> "x", set |-> NilSet, bool |-> FALSE,
          num |-> IDNil, err |-> NoErr, panic |-> FALSE, data |-> <<>>]

Called(op, v) == [NoRet EXCEPT !.op = op, !.recv = v]

\* v = MakeIDSet(ids...)
MakeIDSetOp(v) ==
    \E ids \in SeqsUpTo(IDs) :
        LET m == AssignNew(heap, ref, v, MakeIDSet(ids))
        IN /\ heap' = m.heap
           /\ ref' = m.ref
           /\ rel' = "none"
           /\ ret' = Called("MakeIDSet", v)
           /\ UNCHANGED <<cin, cout, fe>>

\* v = nil (also: var v IDSet)
SetNilOp(v) ==
    LET m == AssignNew(heap, ref, v, NilSet)
    IN /\ heap' = m.heap
       /\ ref' = m.ref
       /\ rel' = "none"
       /\ ret' = Called("SetNil", v)
       /\ UNCHANGED <<cin, cout, fe>>

\* v = w, w the other variable: both refer to the same map
AliasOp(v) ==
    LET rf2 == [ref EXCEPT ![v] = ref[Other(v)]]
    IN /\ ref' = rf2
       /\ heap' = Collect(heap, rf2)
       /\ rel' = "none"
       /\ ret' = Called("Alias", v)
       /\ UNCHANGED <<cin, cout, fe>>

\* a call that writes to the map of v, leaving r.set in it, or panics
Mutate(op, v, r) ==
    /\ heap' = StoreIn(heap, ref, v, r.set)
    /\ ret' = [Called(op, v) EXCEPT !.panic = r.panic]
    /\ UNCHANGED <<ref, rel, cin, cout, fe>>

AddOp(v) ==
    \E id \in IDs :
        Mutate("Add", v, Add(Deref(heap, ref[v]), id))

AddSliceOp(v) ==
    \E sl \in SeqsUpTo(IDs) :
        Mutate("AddSlice", v, AddSlice(Deref(heap, ref[v]), sl))

AddSetOp(v) ==
    \E w \in Vars, it \in Perms :
        Mutate("AddSet", v, AddSet(Deref(heap, ref[v]), Deref(heap, ref[w]), it))

DeleteOp(v) ==
    \E id \in IDs :
        Mutate("Delete", v, [set |-> Delete(Deref(heap, ref[v]), id), panic |-> FALSE])

ClearOp(v) ==
    Mutate("Clear", v, [set |-> Clear(Deref(heap, ref[v])), panic |-> FALSE])

DeleteSliceOp(v) ==
    \E sl \in SeqsUpTo(IDs) :
        Mutate("DeleteSlice", v,
               [set |-> DeleteSlice(Deref(heap, ref[v]), sl), panic |-> FALSE])

DeleteSetOp(v) ==
    \E w \in Vars, it \in Perms :
        Mutate("DeleteSet", v,
               [set |-> DeleteSet(Deref(heap, ref[v]), Deref(heap, ref[w]), it),
                panic |-> FALSE])

\* w = v.Clone(), w the other variable
CloneOp(v) ==
    LET c == Clone(heap, ref, v)
        rf2 == [ref EXCEPT ![Other(v)] = c.addr]
    IN /\ ref' = rf2
       /\ heap' = Collect(c.heap, rf2)
       /\ rel' = "clone"
       /\ ret' = [Called("Clone", v) EXCEPT !.arg = Other(v)]
       /\ UNCHANGED <<cin, cout, fe>>

\* a call that only reads
Query(r) ==
    /\ ret' = r
    /\ UNCHANGED <<heap, ref, rel, cin, cout, fe>>

DiffOp(v) ==
    \E w \in Vars, it \in Perms :
        Query([Called("Diff", v) EXCEPT
                 !.arg = w, !.set = Diff(Deref(heap, ref[v]), Deref(heap, ref[w]), it)])

EqualOp(v) ==
    \E w \in Vars, it \in Perms :
        Query([Called("Equal", v) EXCEPT
                 !.arg = w, !.bool = Equal(Deref(heap, ref[v]), Deref(heap, ref[w]), it)])

ContainsOp(v) ==
    \E id \in IDs :
        Query([Called("Contains", v) EXCEPT
                 !.num = id, !.bool = Contains(Deref(heap, ref[v]), id)])

LenOp(v) ==
    Query([Called("Len", v) EXCEPT !.num = IDSetLen(Deref(heap, ref[v]))])

IsEmptyOp(v) ==
    Query([Called("IsEmpty", v) EXCEPT !.bool = IsEmpty(Deref(heap, ref[v]))])

IsNullOp(v) ==
    Query([Called("IsNull", v) EXCEPT !.bool = IsNull(Deref(heap, ref[v]))])

GetOneOp(v) ==
    \E it \in Perms :
        Query([Called("GetOne", v) EXCEPT !.num = GetOne(Deref(heap, ref[v]), it)])

\* what a decoder is handed: every document an encoder emits, and hand-written
\* ones (unsorted, repeated IDs, white space, malformed)
JSONInputs ==
    {MarshalJSON(s, it) : s \in SetValues, it \in Perms}
    \cup { IDSliceMarshalJSON(<<2, 1>>), IDSliceMarshalJSON(<<1, 1>>),
           IDSliceMarshalJSON(<<2, 1, 2>>),
           <<"[", " ">> \o Quoted(U(2)) \o <<" ", ",", " ">> \o Quoted(U(1)) \o <<" ", "]">>,
           <<"[">>, <<"{", "}">>, <<"[">> \o U(1) \o <<"]">>,
           <<"[">> \o Quoted(U(1)) \o <<",">> \o Quoted(<<"z">>) \o <<"]">> }

ScanInputs ==
    {Value(s, it) : s \in SetValues, it \in Perms}
    \cup { IDSliceValue(<<2, 1>>), IDSliceValue(<<1, 1>>), IDSliceValue(<<2, 1, 2>>),
           SQLData(<<"{">>), SQLData(<<"{", "z", "}">>), SQLData(<<>>) }

\* a decoder ran on v: d is what it left, data what it was handed
Decoded(op, v, d, data, isNil) ==
    /\ heap' = d.heap
    /\ ref' = d.ref
    /\ rel' = IF d.err.ok THEN "none" ELSE rel
    /\ ret' = [Called(op, v) EXCEPT !.err = d.err, !.data = data, !.bool = isNil]
    /\ UNCHANGED <<cin, cout, fe>>

UnmarshalJSONOp(v) ==
    \E data \in JSONInputs :
        Decoded("UnmarshalJSON", v, UnmarshalJSON(heap, ref, v, data), data, FALSE)

ScanOp(v) ==
    \E value \in ScanInputs :
        Decoded("Scan", v, Scan(heap, ref, v, value), value.data, value.isNil)

UnmarshalTextOp(v) ==
    \E text \in TextInputs :
        Decoded("UnmarshalText", v, UnmarshalText(heap, ref, v, text), text, FALSE)

----------------------------------------------------------------------------
(* IDSet.ForEach(callback), one callback invocation per step *)

\* what a callback may return: nil, or one of two errors
CallbackResults == {"nil", "ErrStop", "ErrFail"}

Idle == [state |-> "idle", set |-> NilSet, cb |-> [id \in IDs |-> "nil"],
         todo |-> {}, visited |-> <<>>, result |-> "nil"]

\* s.ForEach(callback) is called
ForEachCall ==
    /\ fe.state # "running"
    /\ \E s \in SetValues, cb \in [IDs -> CallbackResults] :
           fe' = [state |-> "running", set |-> s, cb |-> cb,
                  todo |-> s.ids, visited |-> <<>>, result |-> "nil"]
    /\ UNCHANGED <<heap, ref, rel, ret, cin, cout>>

\* mutant: the loop goes on after a non-nil error and returns the last one
ForEachIter_NoStop ==
    /\ fe.state = "running"
    /\ \E id \in fe.todo :
           LET err == fe.cb[id]
           IN fe' = [fe EXCEPT !.todo = @ \ {id},
                               !.visited = Append(@, id),
                               !.state = IF fe.todo = {id} /\ (err # "nil" \/ fe.result # "nil")
                                         THEN "returned" ELSE @,
                               !.result = IF err # "nil" THEN err ELSE @]
    /\ UNCHANGED <<heap, ref, rel, ret, cin, cout>>

\* the range loop hands the next ID, in any order, to the callback;
\* a non-nil error is returned at once
ForEachIter ==
    /\ fe.state = "running"
    /\ \E id \in fe.todo :
           LET err == fe.cb[id]
           IN fe' = [fe EXCEPT !.todo = @ \ {id},
                               !.visited = Append(@, id),
                               !.state = IF err # "nil" THEN "returned" ELSE @,
                               !.result = err]
    /\ UNCHANGED <<heap, ref, rel, ret, cin, cout>>

\* the range loop is over: return nil
ForEachReturn ==
    /\ fe.state = "running"
    /\ fe.todo = {}
    /\ fe' = [fe EXCEPT !.state = "returned", !.result = "nil"]
    /\ UNCHANGED <<heap, ref, rel, ret, cin, cout>>

----------------------------------------------------------------------------
(* Specifications *)

Init ==
    /\ heap = [a \in Addrs |-> {}]
    /\ ref = [v \in Vars |-> Nil]
    /\ rel = "none"
    /\ ret = NoRet
    /\ cin = NoCall
    /\ cout = NoResult
    /\ fe = Idle

Next ==
    \E v \in Vars :
        \/ MakeIDSetOp(v) \/ SetNilOp(v) \/ AliasOp(v)
        \/ AddOp(v) \/ AddSliceOp(v) \/ AddSetOp(v)
        \/ DeleteOp(v) \/ ClearOp(v) \/ DeleteSliceOp(v) \/ DeleteSetOp(v)
        \/ CloneOp(v) \/ DiffOp(v) \/ EqualOp(v) \/ ContainsOp(v)
        \/ LenOp(v) \/ IsEmptyOp(v) \/ IsNullOp(v) \/ GetOneOp(v)

\* every in-memory operation, on two variables
Spec == Init /\ [][Next]_vars

NextCanon ==
    \E v \in Vars :
        \/ MakeIDSetOp(v) \/ SetNilOp(v)
        \/ AddOp(v) \/ AddSliceOp(v) \/ AddSetOp(v) \/ DeleteOp(v)

\* two sets built by insertions and deletions
SpecCanon == Init /\ [][NextCanon]_vars

NextClone ==
    \E v \in Vars :
        \/ MakeIDSetOp(v) \/ SetNilOp(v) \/ AliasOp(v)
        \/ AddOp(v) \/ DeleteOp(v) \/ ClearOp(v) \/ CloneOp(v)

\* a set, its clone, and writes to either
SpecClone == Init /\ [][NextClone]_vars

NextDiff ==
    \E v \in Vars :
        \/ MakeIDSetOp(v) \/ SetNilOp(v) \/ AliasOp(v) \/ DiffOp(v)

\* Diff of two sets
SpecDiff == Init /\ [][NextDiff]_vars

\* x is the target of the decoders, and y may keep the map x referred to before
NextDecode ==
    \/ AliasOp("y")
    \/ UnmarshalJSONOp("x") \/ ScanOp("x") \/ UnmarshalTextOp("x")

\* decoding into a variable while another one may refer to its former map
SpecDecode == Init /\ [][NextDecode]_vars

NextCodec ==
    \/ CallString \/ CallMarshalText \/ CallMarshalJSON \/ CallValue
    \/ CallIDSetFromString \/ CallMakeIDSetFromStrings \/ CallMakeIDSetMustFromStrings

\* constructors, parsers and encoders on bounded inputs
SpecCodec == Init /\ [][NextCodec]_vars

NextForEach == ForEachCall \/ ForEachIter \/ ForEachReturn

\* ForEach calls, one at a time
SpecForEach == Init /\ [][NextForEach]_vars

----------------------------------------------------------------------------
(* The claims *)

ValidStr(str) == \E id \in IDs : IDString(id) = str

\* sub occurs in s
Occurs(sub, s) == \E i \in 1..(Len(s) - Len(sub) + 1) : SubSeq(s, i, i + Len(sub) - 1) = sub

\* C1: a null set serializes to the null sentinel in every format: String() and
\* MarshalText() of the nil IDSet yield the null text, MarshalJSON() the JSON
\* literal null, Value() SQL NULL.
C1_NullSerializesToSentinel ==
    cin.set.null =>
        /\ cin.op \in {"String", "MarshalText"} => cout.text \in {S_null, S_NULL}
        /\ cin.op = "MarshalJSON" => cout.text = S_null
        /\ cin.op = "Value" => cout.val = SQLNull

\* C2: parsing the canonical text "set[]" yields a non-null, empty set, and
\* parsing "null" yields a null set.
C2_ParseEmptyAndNull ==
    cin.op = "IDSetFromString" =>
        /\ cin.text = S_set \o <<"[", "]">> =>
               cout.err.ok /\ ~IsNull(cout.set) /\ IsEmpty(cout.set)
        /\ cin.text = S_null => cout.err.ok /\ IsNull(cout.set)

\* C3: every in-memory operation completes, whatever set (the nil one included)
\* it is called on and whatever it is passed: no call panics.
C3_InMemoryOpsTotal == ~ret.panic

\* C4: text round trip: for every set S (null, empty or populated),
\* IDSetFromString(S.String()) succeeds and returns a set Equal to S.
C4_TextRoundTrip ==
    cin.op = "String" =>
        LET r == IDSetFromString(cout.text)
        IN /\ r.err.ok
           /\ \A it \in Perms : Equal(r.set, cin.set, it) /\ Equal(cin.set, r.set, it)

C4_Witness ==
    /\ cin.op = "String"
    /\ Cardinality(cin.set.ids) >= 2
    /\ IDSetFromString(cout.text).set = cin.set

\* C5: two sets that hold the same elements, however they were built (insertion
\* order, duplicates, add-then-delete), give identical String(), MarshalJSON()
\* and Value() output, whatever order their maps are iterated in. The two are
\* both maps or both nil: nothing can be inserted into the nil map.
C5_CanonicalDeterminism ==
    LET a == Deref(heap, ref["x"])
        b == Deref(heap, ref["y"])
    IN (a.null = b.null /\ a.ids = b.ids) =>
           \A i1 \in Perms, i2 \in Perms :
               /\ String(a, i1) = String(b, i2)
               /\ MarshalJSON(a, i1) = MarshalJSON(b, i2)
               /\ Value(a, i1) = Value(b, i2)

C5_Witness ==
    /\ ref["x"] # Nil /\ ref["y"] # Nil /\ ref["x"] # ref["y"]
    /\ heap[ref["x"]] = heap[ref["y"]]
    /\ Cardinality(heap[ref["x"]]) >= 2
    /\ ret.op = "Delete"

\* C6: s.Diff(other) returns a set holding exactly the IDs that are in exactly one
\* of s and other, nil operands included, and modifies neither operand.
C6_DiffSymmetric ==
    [][ ret'.op = "Diff" =>
          LET A == Deref(heap, ref[ret'.recv]).ids
              B == Deref(heap, ref[ret'.arg]).ids
          IN /\ ret'.set = MakeSet((A \ B) \cup (B \ A))
             /\ heap' = heap
             /\ ref' = ref ]_vars

C6_Witness ==
    /\ ret.op = "Diff" /\ ret.recv # ret.arg
    /\ ref["x"] # Nil /\ ref["y"] # Nil
    /\ LET A == heap[ref[ret.recv]]
           B == heap[ref[ret.arg]]
       IN /\ A \ B # {} /\ B \ A # {} /\ A \cap B # {}
          /\ ret.set.ids = (A \ B) \cup (B \ A)

\* C7: MakeIDSetFromStrings(strs) returns the set of all the parsed IDs and no
\* error when every string parses, and otherwise nil with the parse error of
\* the first string that does not: never a partly filled set with an error.
C7_BulkConstructionAtomic ==
    cin.op = "MakeIDSetFromStrings" =>
        LET strs == cin.strs
            bad == {i \in 1..Len(strs) : ~ValidStr(strs[i])}
        IN IF bad = {}
           THEN /\ cout.err = NoErr
                /\ ~cout.set.null
                /\ cout.set.ids = {id \in IDs : \E i \in 1..Len(strs) : strs[i] = IDString(id)}
           ELSE /\ cout.set = NilSet
                /\ cout.err = ParseError(strs[CHOOSE i \in bad : \A j \in bad : i <= j])

C7_Witness ==
    /\ cin.op = "MakeIDSetFromStrings"
    /\ Len(cin.strs) >= 2
    /\ ValidStr(cin.strs[1])
    /\ ~ValidStr(cin.strs[2])
    /\ ~cout.err.ok

\* C8: a successful UnmarshalJSON, Scan or UnmarshalText leaves in its target
\* exactly the decoded IDs, whatever the target held; decoding the null token
\* leaves the target nil; and the map the target referred to before is not
\* written to: a variable that still refers to it sees what it saw.
C8_DecodeReplaces ==
    [][ (ret'.op \in {"UnmarshalJSON", "Scan", "UnmarshalText"} /\ ret'.err.ok) =>
          LET v == ret'.recv
              w == Other(ret'.recv)
              nullToken == \/ ret'.op = "UnmarshalJSON" /\ ret'.data = S_null
                           \/ ret'.op = "Scan" /\ ret'.bool
                           \/ ret'.op = "UnmarshalText" /\ ret'.data \in {S_null, S_NULL}
          IN /\ Deref(heap', ref'[v]).ids = {id \in IDs : Occurs(IDString(id), ret'.data)}
             /\ nullToken => ref'[v] = Nil
             /\ ref'[w] = ref[w]
             /\ Deref(heap', ref'[w]) = Deref(heap, ref[w]) ]_vars

C8_Witness ==
    /\ ret.op = "UnmarshalJSON" /\ ret.err.ok /\ ret.recv = "x"
    /\ ret.data = S_null
    /\ ref["x"] = Nil
    /\ ref["y"] # Nil /\ heap[ref["y"]] # {}

\* C9: Clone of the nil set is nil, Clone of a non-nil set is a non-nil set Equal
\* to the original, and an Add, Delete or Clear on the clone or on the original
\* leaves the other one as it was.
C9_CloneIndependent ==
    [][ /\ ret'.op = "Clone" =>
              LET o == Deref(heap, ref[ret'.recv])
                  c == Deref(heap', ref'[ret'.arg])
              IN /\ IsNull(c) = IsNull(o)
                 /\ \A it \in Perms : Equal(c, o, it)
                 /\ Deref(heap', ref'[ret'.recv]) = o
        /\ (rel = "clone" /\ ret'.op \in {"Add", "Delete", "Clear"}) =>
              Deref(heap', ref'[Other(ret'.recv)]) = Deref(heap, ref[Other(ret'.recv)])
      ]_vars

C9_Witness ==
    /\ rel = "clone"
    /\ ret.op = "Add"
    /\ ref["x"] # Nil /\ ref["y"] # Nil
    /\ heap[ref["x"]] # heap[ref["y"]]
    /\ heap[ref["x"]] # {} /\ heap[ref["y"]] # {}

\* C10: ForEach invokes the callback at most once per element; once an
\* invocation returns a non-nil error no further element is visited and ForEach
\* returns that error; if every invocation returns nil, every element is
\* visited once and ForEach returns nil.
C10_ForEachEarlyExit ==
    LET n == Len(fe.visited)
    IN /\ \A i \in 1..n, j \in 1..n : fe.visited[i] = fe.visited[j] => i = j
       /\ SeqRange(fe.visited) \subseteq fe.set.ids
       /\ \A i \in 1..(n - 1) : fe.cb[fe.visited[i]] = "nil"
       /\ fe.state = "running" => \A i \in 1..n : fe.cb[fe.visited[i]] = "nil"
       /\ fe.state = "returned" =>
              IF fe.result # "nil"
              THEN n >= 1 /\ fe.result = fe.cb[fe.visited[n]]
              ELSE /\ SeqRange(fe.visited) = fe.set.ids
                   /\ \A id \in fe.set.ids : fe.cb[id] = "nil"

C10_Witness ==
    /\ fe.state = "returned"
    /\ fe.result = "ErrStop"
    /\ Len(fe.visited) >= 2
    /\ Len(fe.visited) < Cardinality(fe.set.ids)

====
